---------------------------- MODULE Spec2Model ----------------------------
(***************************************************************************)
(* State-machine model of scripts/download_dev_data.py: the analysis       *)
(* sweep, the discovery of the latest ECMWF run, and the gap-fill phase    *)
(* that extends the dataset with forecast steps of that run.               *)
(*                                                                         *)
(* Time is counted in hours since 00:00 of day 0.  A date string YYYYMMDD  *)
(* is modelled by its day number, a cycle label "HHz" by its two digits    *)
(* <<H, H>>, and a file name "{date}_{cycle}.bin" by the pair of both.     *)
(***************************************************************************)
EXTENDS Integers, Sequences, FiniteSets, TLC

-----------------------------------------------------------------------------
(* Program constants *)

\* PARAMS, in the insertion order of the dict
PARAMS == <<"temp2m", "wind10m_u", "wind10m_v", "pratesfc">>

ParamSet == {PARAMS[i] : i \in 1..Len(PARAMS)}

\* first lead of the gap-fill loop, its increment and its horizon
FirstLead == 6

LeadStep == 6

MaxLeadHours == 240

\* the shape of a decoded field: values.shape != (721, 1440)
GridHeight == 721

GridWidth == 1440

\* plot_hamburg_temp.py: HEIGHT and WIDTH of a stored grid
HEIGHT == 721

WIDTH == 1441

\* range(2) of discover_latest_ecmwf_run
LookbackDays == 2

\* cycles per day in main: ['00z', '06z', '12z', '18z']
MainCycles == << <<0, 0>>, <<0, 6>>, <<1, 2>>, <<1, 8>> >>

-----------------------------------------------------------------------------
(* Bounds of the model *)

\* pre-existing files are drawn for this many candidate timesteps
NumSlots == 2

\* forecast steps with a failing parameter, per sweep, besides unpublished leads
MaxFaults == 1

\* the distinct fields the remote can deliver for one file
NumSeeds == 3

\* a date's listing holds at most this many cycles
MaxListed == 2

\* the day number of "today": the lookback window stays within days >= 0
Today == LookbackDays

\* no run: a date before every day of the model
None == [date |-> -1, cyc |-> <<0, 0>>]

-----------------------------------------------------------------------------
(* Conversions *)

\* int(cycle[:-1]) on a two-digit label
CycleHour(cyc) == 10 * cyc[1] + cyc[2]

\* f"{hour:02d}z"
CycleLabel(hour) == <<hour \div 10, hour % 10>>

\* datetime(year, month, day, hour)
TimeOf(date, cyc) == 24 * date + CycleHour(cyc)

\* forecast_time.strftime('%Y%m%d')
DateOf(t) == t \div 24

\* forecast_time.hour
HourOf(t) == t % 24

-----------------------------------------------------------------------------
(* The dataset: one record per file public/data/{param}/{date}_{cycle}.bin, *)
(* src tells which download wrote it ("pre": present before the sweep).     *)

FileExists(fs, param, date, cyc) ==
    \E f \in fs : f.param = param /\ f.date = date /\ f.cyc = cyc

\* fp16_data.tofile(output_file): creates the file or replaces its content
WriteFile(fs, param, date, cyc, src) ==
    {f \in fs : ~(f.param = param /\ f.date = date /\ f.cyc = cyc)}
        \cup {[param |-> param, date |-> date, cyc |-> cyc, src |-> src]}

\* Other *.bin names in public/data/temp2m: the parts of the stem between
\* underscores, each "digits" (every int() of the scan accepts its slice) or
\* "text" (an int() raises ValueError).
\* parts = f.stem.split('_'); if len(parts) == 2: int(...), int(...)
ParseStem(parts) ==
    IF Len(parts) # 2 THEN "ignored"
    ELSE IF parts[1] = "digits" /\ parts[2] = "digits" THEN "time"
    ELSE "raises"

\* the scan meets a name whose conversion raises
ScanRaises(names) == \E n \in names : ParseStem(n) = "raises"

\* the scan of public/data/temp2m/*.bin at the start of gap-fill
ScanExistingTimes(fs) ==
    {TimeOf(f.date, f.cyc) : f \in {g \in fs : g.param = "temp2m"}}


-----------------------------------------------------------------------------
(* The grid of one file.  A decoded field is [rows, cols, seed]: its value *)
(* at row r, column c (both from 0) is RawValue(seed, r, c).  A stored     *)
(* file keeps the shape, the seed of the field it was built from and, per  *)
(* column of the file, the column of the field it was copied from.         *)

RawValue(seed, r, c) == (1000 * seed + 3 * r + 5 * c) % 4096

\* astype(np.float16) on an integer below 4096: 11 bits of significand, so
\* above 2048 only even values exist; a tie goes to the even significand
Fp16(v) ==
    IF v <= 2048 \/ v % 2 = 0 THEN v
    ELSE IF ((v - 1) \div 2) % 2 = 0 THEN v - 1 ELSE v + 1

NoField == [rows |-> 0, cols |-> 0, seed |-> 0]

NoFile == [present |-> FALSE, rows |-> 0, cols |-> 0, seed |-> 0,
           colsrc |-> <<>>, dtype |-> "none", src |-> "none"]

\* values.shape != (721, 1440) is the skip; this is its negation
ShapeOk(field) == field.rows = GridHeight /\ field.cols = GridWidth

\* faulty variant: the last column is appended instead of the first
WrapColumns_Last(field) ==
    [j \in 1..(field.cols + 1) |-> IF j <= field.cols THEN j - 1 ELSE field.cols - 1]

\* np.hstack([values, values[:, 0:1]]): entry j is file column j - 1
WrapColumns(field) ==
    [j \in 1..(field.cols + 1) |-> IF j <= field.cols THEN j - 1 ELSE 0]

\* the shape test, hstack, astype(np.float16) and tofile of one parameter
StoreField(old, field, src) ==
    IF ~ShapeOk(field) THEN old
    ELSE [present |-> TRUE, rows |-> field.rows, cols |-> field.cols + 1,
          seed |-> field.seed, colsrc |-> WrapColumns(field),
          dtype |-> "float16", src |-> src]

\* the value a stored file holds at row r, column c
FileValue(file, r, c) == Fp16(RawValue(file.seed, r, file.colsrc[c + 1]))

-----------------------------------------------------------------------------
(* plot_hamburg_temp.py: latlon_to_grid_indices, angles in hundredths of a *)
(* degree, so that the 0.25 degree spacing is 25                           *)

\* int() of a quotient: truncation toward zero
TruncDiv(n, d) == IF n >= 0 THEN n \div d ELSE -((-n) \div d)

Clamp(x, lo, hi) == IF x < lo THEN lo ELSE IF x > hi THEN hi ELSE x

LatLonToGridIndices(lat, lon) ==
    LET lat_idx == TruncDiv(9000 - lat, 25)
        lon_normalized == lon % 36000
        lon_idx == TruncDiv(lon_normalized, 25)
    IN <<Clamp(lat_idx, 0, HEIGHT - 1), Clamp(lon_idx, 0, WIDTH - 1)>>

-----------------------------------------------------------------------------
(* Outcomes of the remote fetches of one timestep: per parameter, "ok" (a  *)
(* 721 x 1440 field arrives and the file is written), "soft" (no data      *)
(* variable or a wrong shape: the parameter is passed over with continue)  *)
(* or "exc" (client.retrieve, cfgrib or the write raises).                 *)

AllOk == [p \in ParamSet |-> "ok"]

AllRaise == [p \in ParamSet |-> "exc"]

FaultAt(p, kind) == [q \in ParamSet |-> IF q = p THEN kind ELSE "ok"]

StepFaults ==
    { FaultAt("temp2m", "exc"), FaultAt("wind10m_v", "exc"),
      FaultAt("temp2m", "soft"), FaultAt("pratesfc", "soft") }

-----------------------------------------------------------------------------
(* download_forecast_step: the parameters in order; the first exception    *)
(* returns False at once.                                                   *)

RECURSIVE ForecastParamsFrom(_, _, _, _, _, _)
ForecastParamsFrom(i, fs, att, o, odate, ocyc) ==
    IF i > Len(PARAMS)
    THEN [files |-> fs, ret |-> TRUE, attempted |-> att]
    ELSE LET p == PARAMS[i] IN
         CASE o[p] = "exc" ->
                [files |-> fs, ret |-> FALSE, attempted |-> Append(att, p)]
           [] o[p] = "soft" ->
                ForecastParamsFrom(i + 1, fs, Append(att, p), o, odate, ocyc)
           [] OTHER ->
                ForecastParamsFrom(i + 1, WriteFile(fs, p, odate, ocyc, "fc"),
                                   Append(att, p), o, odate, ocyc)

DownloadForecastStep(fs, o, odate, ocyc) ==
    ForecastParamsFrom(1, fs, <<>>, o, odate, ocyc)

-----------------------------------------------------------------------------
(* download_timestep: every parameter is tried; a failure of one is logged *)
(* and the loop goes on.  Always returns True.                             *)

RECURSIVE AnalysisParamsFrom(_, _, _, _, _, _)
AnalysisParamsFrom(i, fs, att, o, date, cyc) ==
    IF i > Len(PARAMS)
    THEN [files |-> fs, ret |-> TRUE, attempted |-> att]
    ELSE LET p == PARAMS[i] IN
         IF o[p] = "ok"
         THEN AnalysisParamsFrom(i + 1, WriteFile(fs, p, date, cyc, "an"),
                                 Append(att, p), o, date, cyc)
         ELSE AnalysisParamsFrom(i + 1, fs, Append(att, p), o, date, cyc)

DownloadTimestep(fs, o, date, cyc) ==
    AnalysisParamsFrom(1, fs, <<>>, o, date, cyc)

\* generate_date_list(days_before, 0): today - days_before .. today
GenerateDateList(days_before) ==
    [i \in 1..(days_before + 1) |-> Today - days_before + (i - 1)]

\* target_timesteps = (args.delta * 2 + 1) * 4
TargetTimesteps(d) == (d * 2 + 1) * 4

-----------------------------------------------------------------------------
(* Run discovery *)

\* string order of two-digit cycle labels
LabelLess(a, b) == a[1] < b[1] \/ (a[1] = b[1] /\ a[2] < b[2])

\* sorted(cycles)
RECURSIVE SortCycles(_)
SortCycles(S) ==
    IF S = {} THEN <<>>
    ELSE LET m == CHOOSE x \in S : \A y \in S \ {x} : LabelLess(x, y)
         IN <<m>> \o SortCycles(S \ {m})

Reversed(q) == [i \in 1..Len(q) |-> q[Len(q) + 1 - i]]

\* faulty variant: the cycles of a date taken in chronological order
CyclesToProbe_Forward(S) == SortCycles(S)

\* reversed(get_available_cycles(date_str))
CyclesToProbe(S) == Reversed(SortCycles(S))

\* faulty variant: a probe that fails counts as available
CheckForecastAvailable_ErrTrue(answer) == answer # "no"

\* check_forecast_available: status 200, and False on any exception
CheckForecastAvailable(answer) == answer = "yes"

-----------------------------------------------------------------------------
(* The tests of the gap-fill loop *)

\* faulty variant: the count test off by one
LoopContinues_OffByOne(dl, need, lead) == dl <= need /\ lead <= MaxLeadHours

\* while downloaded < needed and forecast_hour <= 240
LoopContinues(dl, need, lead) == dl < need /\ lead <= MaxLeadHours

\* faulty variant: the boundary test dropped
OnCycleBoundary_Always(t) == TRUE

\* forecast_time.hour % 6 != 0 is the skip; this is its negation
OnCycleBoundary(t) == HourOf(t) % 6 = 0

\* faulty variant: one present parameter file is enough to skip
SkipDownload_AnyParam(fs, date, cyc) ==
    \E i \in 1..Len(PARAMS) : FileExists(fs, PARAMS[i], date, cyc)

\* skip_download: no parameter misses the file of this timestep
SkipDownload(fs, date, cyc) ==
    \A i \in 1..Len(PARAMS) : FileExists(fs, PARAMS[i], date, cyc)

\* faulty variant: continue without advancing the lead
SkipAdvance_Forgotten(lead) == lead

\* forecast_hour += 6 of the two skipping branches
SkipAdvance(lead) == lead + LeadStep

\* faulty variant: the lead of a fetched step is tried again
FetchAdvance_Retry(lead) == lead

\* forecast_hour += 6 after a fetch
FetchAdvance(lead) == lead + LeadStep

-----------------------------------------------------------------------------
VARIABLES
    pc,             \* position of the program
    files,          \* the dataset on disk
    stray,          \* other *.bin names in public/data/temp2m
    stored,         \* the grid of one output_file
    raw,            \* values: the field decoded last for that file
    geo,            \* one call of latlon_to_grid_indices
    published,      \* remote: the last lead hour of the run that is uploaded
    budget,         \* remote: sporadic faults still to come
    archive,        \* remote: per date, the listing and the probe answers
    delta,          \* args.delta
    an_idx,         \* main: analysis timesteps handled so far
    success,        \* main: success
    exit_code,      \* main: return value, -1 while running
    days_back,      \* discovery: loop variable
    cycles,         \* discovery: cycles of the date still to probe
    probed,         \* history: the (date, cycle) pairs probed, in order
    latest_run,     \* result of discover_latest_ecmwf_run
    run,            \* latest_run_date, latest_run_cycle
    target_count,
    existing_times,
    needed,
    forecast_hour,
    downloaded,
    files0,         \* history: the dataset when gap-fill started
    emitted         \* history: the forecast steps fetched, in order

gapVars == <<run, target_count, existing_times, needed, forecast_hour,
             downloaded, files0, emitted>>

discVars == <<days_back, cycles, probed, latest_run>>

mainVars == <<delta, an_idx, success, exit_code>>

vars == <<pc, files, stray, stored, raw, geo, published, budget, archive,
          mainVars, discVars, gapVars>>

-----------------------------------------------------------------------------
(* download_latest_forecasts, up to the loop *)

GapStart ==
    /\ pc = "gap_start"
    /\ IF ScanRaises(stray)
       THEN \* the ValueError leaves download_latest_forecasts and main
            /\ pc' = "gap_raised"
            /\ UNCHANGED <<existing_times, files0, needed, forecast_hour,
                           downloaded>>
       ELSE LET existing == ScanExistingTimes(files) IN
            /\ existing_times' = existing
            /\ files0' = files
            /\ IF Cardinality(existing) >= target_count
               THEN /\ pc' = "gap_done"
                    /\ UNCHANGED <<needed, forecast_hour, downloaded>>
               ELSE /\ needed' = target_count - Cardinality(existing)
                    /\ forecast_hour' = FirstLead
                    /\ downloaded' = 0
                    /\ pc' = "gap_loop"
    /\ UNCHANGED <<files, published, budget, run, target_count, emitted>>
    /\ UNCHANGED <<archive, mainVars, discVars, stray,
                   stored, raw, geo>>

\* what the remote can answer to the fetch of one lead
FetchOutcomes(lead) ==
    IF lead > published THEN {AllRaise}
    ELSE {AllOk} \cup (IF budget > 0 THEN StepFaults ELSE {})

(* one evaluation of the while condition and, if it holds, one iteration *)
GapIter ==
    /\ pc = "gap_loop"
    /\ IF ~LoopContinues(downloaded, needed, forecast_hour)
       THEN /\ pc' = "gap_done"
            /\ UNCHANGED <<files, budget, existing_times, forecast_hour,
                           downloaded, emitted>>
       ELSE LET forecast_time == TimeOf(run.date, run.cyc) + forecast_hour
                forecast_date == DateOf(forecast_time)
                forecast_cycle == CycleLabel(HourOf(forecast_time))
            IN
            /\ pc' = "gap_loop"
            /\ IF ~OnCycleBoundary(forecast_time)
               THEN /\ forecast_hour' = SkipAdvance(forecast_hour)
                    /\ UNCHANGED <<files, budget, existing_times, downloaded,
                                   emitted>>
               ELSE IF SkipDownload(files, forecast_date, forecast_cycle)
                       /\ forecast_time \in existing_times
               THEN /\ forecast_hour' = SkipAdvance(forecast_hour)
                    /\ UNCHANGED <<files, budget, existing_times, downloaded,
                                   emitted>>
               ELSE \E o \in FetchOutcomes(forecast_hour) :
                    LET r == DownloadForecastStep(files, o, forecast_date,
                                                  forecast_cycle)
                    IN
                    /\ files' = r.files
                    /\ budget' = IF o \in StepFaults THEN budget - 1 ELSE budget
                    /\ downloaded' = IF r.ret THEN downloaded + 1 ELSE downloaded
                    /\ existing_times' =
                          IF r.ret THEN existing_times \cup {forecast_time}
                          ELSE existing_times
                    /\ emitted' = Append(emitted,
                          [lead |-> forecast_hour, target |-> forecast_time,
                           date |-> forecast_date, cyc |-> forecast_cycle,
                           ret |-> r.ret, attempted |-> r.attempted])
                    /\ forecast_hour' = FetchAdvance(forecast_hour)
    /\ UNCHANGED <<published, run, target_count, needed, files0>>
    /\ UNCHANGED <<archive, mainVars, discVars, stray,
                   stored, raw, geo>>

-----------------------------------------------------------------------------
(* discover_latest_ecmwf_run *)

\* for days_back in range(2): the listing of the date, or its failure
DiscDate ==
    /\ pc = "disc_date"
    /\ IF days_back >= LookbackDays
       THEN /\ latest_run' = None
            /\ pc' = "disc_done"
            /\ UNCHANGED <<days_back, cycles>>
       ELSE LET check_date == Today - days_back IN
            IF ~archive[check_date].ok
            THEN /\ days_back' = days_back + 1
                 /\ pc' = "disc_date"
                 /\ UNCHANGED <<cycles, latest_run>>
            ELSE /\ cycles' = CyclesToProbe(DOMAIN archive[check_date].probes)
                 /\ pc' = "disc_cycle"
                 /\ UNCHANGED <<days_back, latest_run>>
    /\ UNCHANGED <<files, published, budget, archive, mainVars, probed, gapVars,
                   stray,
                   stored, raw, geo>>

\* for cycle in reversed(cycles): one probe
DiscProbe ==
    /\ pc = "disc_cycle"
    /\ IF cycles = <<>>
       THEN /\ days_back' = days_back + 1
            /\ pc' = "disc_date"
            /\ UNCHANGED <<cycles, probed, latest_run>>
       ELSE LET check_date == Today - days_back
                cycle == Head(cycles)
            IN
            /\ probed' = Append(probed, [date |-> check_date, cyc |-> cycle])
            /\ IF CheckForecastAvailable(archive[check_date].probes[cycle])
               THEN /\ latest_run' = [date |-> check_date, cyc |-> cycle]
                    /\ pc' = "disc_done"
                    /\ UNCHANGED <<days_back, cycles>>
               ELSE /\ cycles' = Tail(cycles)
                    /\ pc' = "disc_cycle"
                    /\ UNCHANGED <<days_back, latest_run>>
    /\ UNCHANGED <<files, published, budget, archive, mainVars, gapVars, stray,
                   stored, raw, geo>>

-----------------------------------------------------------------------------
(* main *)

AnalysisOutcomes == {AllOk, AllRaise, FaultAt("temp2m", "exc")}

\* for date in dates: for cycle in cycles: download_timestep(date, cycle)
MainAnalysis ==
    /\ pc = "analysis"
    /\ LET dates == GenerateDateList(delta)
           total_analysis == Len(dates) * Len(MainCycles)
       IN
       IF an_idx >= total_analysis
       THEN /\ pc' = "disc_date"
            /\ UNCHANGED <<files, an_idx, success>>
       ELSE \E o \in AnalysisOutcomes :
            LET date == dates[(an_idx \div Len(MainCycles)) + 1]
                cycle == MainCycles[(an_idx % Len(MainCycles)) + 1]
                r == DownloadTimestep(files, o, date, cycle)
            IN
            /\ files' = r.files
            /\ success' = IF r.ret THEN success + 1 ELSE success
            /\ an_idx' = an_idx + 1
            /\ pc' = "analysis"
    /\ UNCHANGED <<published, budget, archive, delta, exit_code, discVars, gapVars,
                   stray,
                   stored, raw, geo>>

\* if not latest_run: return 1; else download_latest_forecasts(...)
MainAfterDiscovery ==
    /\ pc = "disc_done"
    /\ IF latest_run = None
       THEN /\ exit_code' = 1
            /\ pc' = "exit"
            /\ UNCHANGED <<run, target_count>>
       ELSE /\ run' = latest_run
            /\ target_count' = TargetTimesteps(delta)
            /\ pc' = "gap_start"
            /\ UNCHANGED exit_code
    /\ UNCHANGED <<files, published, budget, archive, delta, an_idx, success,
                   discVars, existing_times, needed, forecast_hour, downloaded,
                   files0, emitted, stray,
                   stored, raw, geo>>

\* the summary and return 0
MainFinish ==
    /\ pc = "gap_done"
    /\ exit_code' = 0
    /\ pc' = "exit"
    /\ UNCHANGED <<files, published, budget, archive, delta, an_idx, success,
                   discVars, gapVars, stray,
                   stored, raw, geo>>

-----------------------------------------------------------------------------
(* The remote archive *)

Days == (Today - LookbackDays + 1)..Today

CycleSet == {MainCycles[i] : i \in 1..Len(MainCycles)}

\* what one date can look like: the listing fails, or it lists some cycles,
\* each with the answer its probe gets
DayArchives(labelSets) ==
    {[ok |-> FALSE, probes |-> <<>>]}
        \cup UNION {{[ok |-> TRUE, probes |-> f] : f \in [S -> {"yes", "no", "err"}]} :
                     S \in labelSets}

ListedSets == {S \in SUBSET CycleSet : Cardinality(S) <= MaxListed}

-----------------------------------------------------------------------------
(* The inputs of download_latest_forecasts *)

\* the runs handed to gap-fill: aligned cycles and one that is not
GapRuns ==
    { [date |-> Today, cyc |-> <<0, 0>>],
      [date |-> Today - 1, cyc |-> <<1, 8>>],
      [date |-> Today, cyc |-> <<0, 3>>] }

TargetCounts == {1, 4, 44}

PublishedLeads == {12, MaxLeadHours}

\* the candidate timesteps of pre-existing files: Today 06z, 18z, ...
SlotTime(k) == 24 * Today + 6 + 12 * k

Slots == 0..(NumSlots - 1)

\* which parameters hold a pre-existing file of one timestep
Coverages ==
    { {}, {"temp2m"}, ParamSet \ {"temp2m"}, ParamSet }

FilesOf(cov) ==
    { [param |-> p, date |-> DateOf(SlotTime(k)),
       cyc |-> CycleLabel(HourOf(SlotTime(k))), src |-> "pre"] :
      <<k, p>> \in {kp \in Slots \X ParamSet : kp[2] \in cov[kp[1]]} }

HorizonLeads == MaxLeadHours \div LeadStep

\* the locals of the three functions before they are entered
GapIdle ==
    /\ existing_times = {}
    /\ needed = 0
    /\ forecast_hour = 0
    /\ downloaded = 0
    /\ files0 = {}
    /\ emitted = <<>>

ToolsIdle ==
    /\ stored = NoFile
    /\ raw = NoField
    /\ geo = [lat |-> 0, lon |-> 0, row |-> -1, col |-> -1, done |-> FALSE]

DiscIdle ==
    /\ days_back = 0
    /\ cycles = <<>>
    /\ probed = <<>>

MainIdle ==
    /\ delta = 0
    /\ an_idx = 0
    /\ success = 0
    /\ exit_code = -1

Init ==
    /\ pc = "gap_start"
    /\ run \in GapRuns
    /\ target_count \in TargetCounts
    /\ published \in PublishedLeads
    /\ budget \in IF target_count > HorizonLeads THEN {0} ELSE 0..MaxFaults
    /\ \E cov \in [Slots -> Coverages] : files = FilesOf(cov)
    /\ stray = {}
    /\ ToolsIdle
    /\ GapIdle
    /\ MainIdle
    /\ DiscIdle
    /\ latest_run = run
    /\ archive = [d \in Days |-> [ok |-> FALSE, probes |-> <<>>]]

Next == GapStart \/ GapIter

Spec == Init /\ [][Next]_vars

\* the scheduling of a sequential program: it takes its next step
LiveSpec == Init /\ [][Next]_vars /\ WF_vars(Next)

-----------------------------------------------------------------------------
(* download_latest_forecasts over a temp2m directory that also holds names *)
(* the pipeline did not write *)

StrayNames ==
    { <<"text">>, <<"digits", "digits", "digits">>, <<"text", "text">>,
      <<"digits", "text">> }

InitScan ==
    /\ pc = "gap_start"
    /\ run = [date |-> Today, cyc |-> <<0, 0>>]
    /\ target_count \in {1, 4}
    /\ published = MaxLeadHours
    /\ budget = 0
    /\ \E cov \in [Slots -> Coverages] : files = FilesOf(cov)
    /\ stray \in SUBSET StrayNames
    /\ ToolsIdle
    /\ GapIdle
    /\ MainIdle
    /\ DiscIdle
    /\ latest_run = run
    /\ archive = [d \in Days |-> [ok |-> FALSE, probes |-> <<>>]]

SpecScan == InitScan /\ [][Next]_vars

-----------------------------------------------------------------------------
(* The body of the parameter loops for one output_file: fields of several *)
(* shapes arrive, from analysis and from forecast downloads *)

RawShapes ==
    { <<GridHeight, GridWidth>>, <<GridHeight, GridWidth + 1>>,
      <<GridHeight - 1, GridWidth>>, <<GridWidth, GridHeight>>,
      <<GridHeight, GridWidth - 1>>, <<GridHeight + 1, GridWidth>> }

Seeds == 1..NumSeeds

FieldsDelivered ==
    {[rows |-> sh[1], cols |-> sh[2], seed |-> sd] : sh \in RawShapes, sd \in Seeds}

\* download_timestep, lines 171-198, for one parameter
AnalysisField ==
    /\ pc = "grid"
    /\ \E field \in FieldsDelivered :
          /\ raw' = field
          /\ stored' = StoreField(stored, field, "an")
    /\ UNCHANGED <<pc, files, stray, geo, published, budget, archive, mainVars,
                   discVars, gapVars>>

\* download_forecast_step, lines 340-355, for one parameter
ForecastField ==
    /\ pc = "grid"
    /\ \E field \in FieldsDelivered :
          /\ raw' = field
          /\ stored' = StoreField(stored, field, "fc")
    /\ UNCHANGED <<pc, files, stray, geo, published, budget, archive, mainVars,
                   discVars, gapVars>>

InitGrid ==
    /\ pc = "grid"
    /\ stored \in {NoFile, StoreField(NoFile, [rows |-> GridHeight,
                                             cols |-> GridWidth, seed |-> 0], "pre")}
    /\ raw = NoField
    /\ geo = [lat |-> 0, lon |-> 0, row |-> -1, col |-> -1, done |-> FALSE]
    /\ files = {}
    /\ stray = {}
    /\ published = MaxLeadHours
    /\ budget = 0
    /\ run = None
    /\ target_count = 0
    /\ latest_run = None
    /\ archive = [d \in Days |-> [ok |-> FALSE, probes |-> <<>>]]
    /\ GapIdle
    /\ MainIdle
    /\ DiscIdle

NextGrid == AnalysisField \/ ForecastField

SpecGrid == InitGrid /\ [][NextGrid]_vars

-----------------------------------------------------------------------------
(* latlon_to_grid_indices over sample positions *)

Lats == {-9000, -8990, -4513, 0, 3004, 8985, 8990, 9000}

Lons == {-18000, -10, 0, 10, 15, 3124, 35990, 36000}

LatLonCall ==
    /\ pc = "geo"
    /\ ~geo.done
    /\ LET ij == LatLonToGridIndices(geo.lat, geo.lon) IN
         geo' = [geo EXCEPT !.row = ij[1], !.col = ij[2], !.done = TRUE]
    /\ UNCHANGED <<pc, files, stray, stored, raw, published, budget, archive,
                   mainVars, discVars, gapVars>>

InitGeo ==
    /\ pc = "geo"
    /\ geo \in {[lat |-> a, lon |-> b, row |-> -1, col |-> -1, done |-> FALSE] :
                 a \in Lats, b \in Lons}
    /\ stored = NoFile
    /\ raw = NoField
    /\ files = {}
    /\ stray = {}
    /\ published = MaxLeadHours
    /\ budget = 0
    /\ run = None
    /\ target_count = 0
    /\ latest_run = None
    /\ archive = [d \in Days |-> [ok |-> FALSE, probes |-> <<>>]]
    /\ GapIdle
    /\ MainIdle
    /\ DiscIdle

NextGeo == LatLonCall

SpecGeo == InitGeo /\ [][NextGeo]_vars

-----------------------------------------------------------------------------
(* discover_latest_ecmwf_run against every archive of the bound *)

InitDiscover ==
    /\ pc = "disc_date"
    /\ archive \in [Days -> DayArchives(ListedSets)]
    /\ files = {}
    /\ stray = {}
    /\ ToolsIdle
    /\ published = MaxLeadHours
    /\ budget = 0
    /\ run = None
    /\ target_count = 0
    /\ latest_run = None
    /\ GapIdle
    /\ MainIdle
    /\ DiscIdle

NextDiscover == DiscDate \/ DiscProbe

SpecDiscover == InitDiscover /\ [][NextDiscover]_vars

-----------------------------------------------------------------------------
(* main: the analysis sweep, discovery, gap-fill *)

MainListedSets == {{MainCycles[2]}}

InitMain ==
    /\ pc = "analysis"
    /\ archive \in [Days -> DayArchives(MainListedSets)]
    /\ files = {}
    /\ stray = {}
    /\ ToolsIdle
    /\ published \in PublishedLeads
    /\ budget = 0
    /\ run = None
    /\ target_count = 0
    /\ latest_run = None
    /\ GapIdle
    /\ MainIdle
    /\ DiscIdle

NextMain ==
    \/ MainAnalysis
    \/ DiscDate
    \/ DiscProbe
    \/ MainAfterDiscovery
    \/ GapStart
    \/ GapIter
    \/ MainFinish

SpecMain == InitMain /\ [][NextMain]_vars

-----------------------------------------------------------------------------
(* Vocabulary of the properties *)

Max0(n) == IF n > 0 THEN n ELSE 0

Leads == {LeadStep * k : k \in 1..HorizonLeads}

RunTime == TimeOf(run.date, run.cyc)

\* every configured parameter has a file for timestep t
FullyCovered(fs, t) ==
    \A p \in ParamSet : \E f \in fs : f.param = p /\ TimeOf(f.date, f.cyc) = t

\* the existing set when planning started
Existing0 == {TimeOf(f.date, f.cyc) : f \in {g \in files0 : g.param = "temp2m"}}

\* leads that resolve to a timestep (cycle 00, 06, 12 or 18) not fully covered
OpenLeads ==
    {l \in Leads : HourOf(RunTime + l) \in {0, 6, 12, 18}
                    /\ ~FullyCovered(files0, RunTime + l)}

EmittedIdx == 1..Len(emitted)

AllFetchesSucceeded == \A i \in EmittedIdx : emitted[i].ret

-----------------------------------------------------------------------------
\* C1: when gap-fill has returned, every fetch succeeded and at least
\* max(0, target_count - |existing|) leads in 6..240 resolve to timesteps not
\* fully covered, exactly max(0, target_count - |existing|) steps were
\* emitted; none when |existing| >= target_count.
C1_EmitsExactlyNeeded ==
    (pc = "gap_done" /\ AllFetchesSucceeded
       /\ Cardinality(OpenLeads) >= Max0(target_count - Cardinality(Existing0)))
    => Len(emitted) = Max0(target_count - Cardinality(Existing0))

C1_Witness ==
    /\ pc = "gap_done" /\ AllFetchesSucceeded
    /\ Existing0 # {}
    /\ Cardinality(OpenLeads) >= Max0(target_count - Cardinality(Existing0))
    /\ Len(emitted) >= 2

\* C2: gap-fill always returns; when it returns with fewer steps counted
\* than needed, the lead has passed 240.
C2_GapFillTerminates ==
    /\ <>(pc = "gap_done")
    /\ []((pc = "gap_done" /\ downloaded < needed) => forecast_hour > MaxLeadHours)

C2_Witness ==
    /\ pc = "gap_done" /\ downloaded < needed /\ forecast_hour > MaxLeadHours
    /\ \E i \in EmittedIdx : ~emitted[i].ret
    /\ \E i \in EmittedIdx : emitted[i].ret

\* C3: the emitted leads increase strictly, each is a multiple of 6 within
\* 6..240, and each resolves to a target whose hour is 00, 06, 12 or 18; a
\* run whose cycle is off the 6-hour grid emits nothing.
C3_LeadsIncreasingAligned ==
    /\ \A i \in EmittedIdx :
          /\ emitted[i].lead % 6 = 0
          /\ emitted[i].lead >= 6 /\ emitted[i].lead <= 240
          /\ HourOf(RunTime + emitted[i].lead) \in {0, 6, 12, 18}
          /\ TimeOf(emitted[i].date, emitted[i].cyc) = RunTime + emitted[i].lead
          /\ i > 1 => emitted[i - 1].lead < emitted[i].lead
    /\ CycleHour(run.cyc) % 6 # 0 => emitted = <<>>

C3_Witness ==
    /\ Len(emitted) >= 3
    /\ \E i \in EmittedIdx :
          i > 1 /\ emitted[i].lead > emitted[i - 1].lead + LeadStep

\* C4: an iteration over a target on the 6-hour grid leaves the step out
\* (no fetch, no file touched, nothing counted) exactly when the target is
\* in the existing set and every parameter has its file; otherwise it
\* fetches that lead.
C4_SkipIffFullyCovered ==
    [][ (pc = "gap_loop" /\ pc' = "gap_loop"
           /\ HourOf(RunTime + forecast_hour) \in {0, 6, 12, 18})
        => IF (RunTime + forecast_hour) \in existing_times
              /\ FullyCovered(files, RunTime + forecast_hour)
           THEN /\ emitted' = emitted /\ files' = files
                /\ downloaded' = downloaded
                /\ existing_times' = existing_times
           ELSE /\ Len(emitted') = Len(emitted) + 1
                /\ emitted'[Len(emitted')].lead = forecast_hour ]_vars

C4_Witness ==
    /\ pc = "gap_loop"
    /\ \E i \in EmittedIdx : emitted[i].target \in Existing0
    /\ \E l \in Leads :
          /\ l < forecast_hour
          /\ (RunTime + l) \in Existing0 /\ FullyCovered(files0, RunTime + l)
          /\ \A i \in EmittedIdx : emitted[i].lead # l

\* C5: no emitted step resolves to a timestep that was in the existing set
\* when planning started, nor to the target of an earlier emitted step.
C5_NoEmittedTargetExisting ==
    \A i \in EmittedIdx :
        /\ emitted[i].target \notin Existing0
        /\ \A j \in 1..(i - 1) : emitted[j].target # emitted[i].target

\* C6: the existing set counted against target_count holds only timesteps
\* for which every configured parameter has a file.
C6_ExistingOnlyFullyCovered ==
    (pc = "gap_loop" /\ emitted = <<>>)
    => /\ \A t \in existing_times : FullyCovered(files, t)
       /\ needed = target_count
                     - Cardinality({t \in existing_times : FullyCovered(files, t)})

\* C10: every fetched forecast step attempts all configured parameters,
\* whatever fails among them, and the sweep goes on to the next lead.
C10_ForecastFailureIsolated ==
    \A i \in EmittedIdx : emitted[i].attempted = PARAMS

-----------------------------------------------------------------------------
(* Vocabulary of the discovery properties *)

RunTimeOf(r) == TimeOf(r.date, r.cyc)

\* the answer the archive gives to the probe of a listed run
ProbeAnswer(r) == archive[r.date].probes[r.cyc]

\* the (date, cycle) pairs the listings of the lookback window show
ListedRuns ==
    UNION {{[date |-> d, cyc |-> c] : c \in DOMAIN archive[d].probes} :
           d \in {e \in Days : archive[e].ok}}

ProbedIdx == 1..Len(probed)

ProbedRuns == {probed[i] : i \in ProbedIdx}

\* C7: pairs are probed from the latest backwards, none after the first
\* probe that is true; a returned run has a true probe, is the last pair
\* probed, and every listed pair later in time was probed and is not
\* available; with no run returned the whole window was probed.
C7_ReturnsLatestAvailable ==
    /\ \A i, j \in ProbedIdx :
          i < j => RunTimeOf(probed[i]) > RunTimeOf(probed[j])
    /\ \A i \in ProbedIdx : i < Len(probed) => ProbeAnswer(probed[i]) # "yes"
    /\ (pc = "disc_done" /\ latest_run # None) =>
          /\ ProbeAnswer(latest_run) = "yes"
          /\ probed # <<>> /\ probed[Len(probed)] = latest_run
          /\ \A r \in ListedRuns :
                RunTimeOf(r) > RunTimeOf(latest_run)
                => r \in ProbedRuns /\ ProbeAnswer(r) # "yes"
    /\ (pc = "disc_done" /\ latest_run = None) => ListedRuns \subseteq ProbedRuns

C7_Witness ==
    /\ pc = "disc_done"
    /\ latest_run # None /\ latest_run.date = Today - 1
    /\ archive[Today].ok
    /\ Len(probed) >= 4

\* C8: discovery never stops short of its return; at the return the result
\* is None exactly when no probed pair has forecast data, a probe that
\* failed is never the result, and with no result every date whose listing
\* succeeded had all its cycles probed, whatever the other listing did.
C8_DiscoveryToleratesFailures ==
    /\ pc # "disc_done" => ENABLED NextDiscover
    /\ pc = "disc_done" =>
          /\ latest_run = None <=> \A i \in ProbedIdx : ProbeAnswer(probed[i]) # "yes"
          /\ \A i \in ProbedIdx :
                ProbeAnswer(probed[i]) = "err" => latest_run # probed[i]
          /\ latest_run = None =>
                \A d \in Days : archive[d].ok =>
                    \A c \in DOMAIN archive[d].probes :
                        [date |-> d, cyc |-> c] \in ProbedRuns

C8_Witness ==
    /\ pc = "disc_done" /\ latest_run = None
    /\ ~archive[Today].ok
    /\ \E i \in ProbedIdx : ProbeAnswer(probed[i]) = "err"
    /\ \E i \in ProbedIdx : ProbeAnswer(probed[i]) = "no"

\* C9: main returns non-zero only if no run was discovered and no analysis
\* download wrote a file.
C9_ExitZeroUnlessNothing ==
    pc = "exit" =>
        \/ exit_code = 0
        \/ latest_run = None /\ \A f \in files : f.src # "an"

\* C11: a file that holds the content of an analysis download keeps that
\* content in every later step of the sweep, gap-fill included.
C11_AnalysisFilesKept ==
    [][ \A f \in files : f.src = "an" => f \in files' ]_vars

\* C15: the leads fetched in one sweep are pairwise different, and a step
\* whose fetch fails is not counted, adds nothing to the existing set and
\* is followed by the next lead, 6 hours on.
C15_FailedStepNotRetried ==
    /\ [](\A i, j \in EmittedIdx : i # j => emitted[i].lead # emitted[j].lead)
    /\ [][ (pc = "gap_loop" /\ Len(emitted') = Len(emitted) + 1
              /\ ~emitted'[Len(emitted')].ret)
           => /\ emitted'[Len(emitted')].lead = forecast_hour
              /\ downloaded' = downloaded
              /\ existing_times' = existing_times
              /\ forecast_hour' = forecast_hour + 6
              /\ pc' = "gap_loop" ]_vars

C15_Witness ==
    \E i \in EmittedIdx :
        /\ i < Len(emitted)
        /\ ~emitted[i].ret
        /\ emitted[i].target \notin existing_times
        /\ emitted[i + 1].lead = emitted[i].lead + 6
        /\ emitted[i + 1].ret

\* C12: the scan of the stored file names never raises, and the existing
\* set it builds holds the timestep of every parsable name.
C12_ScanNeverFails ==
    /\ pc # "gap_raised"
    /\ (pc = "gap_loop" /\ emitted = <<>>) => existing_times = Existing0

-----------------------------------------------------------------------------
\* C13: a stored file has 721 rows and 1441 half-precision columns, its
\* columns 0..1439 are those of the 721 x 1440 field it was built from and
\* its column 1440 equals its column 0 in every row; a field of any other
\* shape leaves the file as it was, and a field of that shape is stored.
C13_StoredGridWrapped ==
    /\ [](stored.present =>
            /\ stored.rows = 721 /\ stored.cols = 1441
            /\ stored.dtype = "float16"
            /\ Len(stored.colsrc) = 1441
            /\ \A c \in 0..1439 : stored.colsrc[c + 1] = c
            /\ \A r \in 0..720 :
                  /\ FileValue(stored, r, 1440) = FileValue(stored, r, 0)
                  /\ FileValue(stored, r, 0) = Fp16(RawValue(stored.seed, r, 0)))
    /\ [][ IF raw'.rows = 721 /\ raw'.cols = 1440
           THEN stored'.present /\ stored'.seed = raw'.seed
           ELSE stored' = stored ]_vars

C13_Witness ==
    /\ stored.present /\ stored.src = "fc"
    /\ raw.rows = 721 /\ raw.cols = 1441
    /\ raw.seed # stored.seed
    /\ \E r \in 0..720 : FileValue(stored, r, 0) # FileValue(stored, r, 1439)

RoundDiv(n, d) ==
    LET q == n \div d
        rem == n % d
    IN IF 2 * rem < d THEN q
       ELSE IF 2 * rem > d THEN q + 1
       ELSE IF q % 2 = 0 THEN q ELSE q + 1

\* C14: for a latitude in [-90, 90] the indices returned are
\* row = clamp(round((90 - lat) / 0.25), 0, 720) and
\* col = clamp(round((lon mod 360) / 0.25), 0, 1440).
C14_NearestGridPoint ==
    (geo.done /\ geo.lat >= -9000 /\ geo.lat <= 9000) =>
        /\ geo.row = Clamp(RoundDiv(9000 - geo.lat, 25), 0, 720)
        /\ geo.col = Clamp(RoundDiv(geo.lon % 36000, 25), 0, 1440)

=============================================================================
